---- MODULE Spec2Model ----
(***************************************************************************)
(* A model of src/main.py, the rental-listing scraper.                     *)
(*                                                                         *)
(*   Spec        scrape_rentals, lines 295-632: target inference, inline   *)
(*               script seeding, the saturation descent, the ascent sweep, *)
(*               card harvesting and the inclusion filter, on short pages. *)
(*   AscentSpec  the same code up to the end of the ascent sweep (line     *)
(*               508), on pages tall enough for the forward jump.          *)
(*   EnrichSpec  scrape_rentals, lines 677-705, together with              *)
(*               scrape_properties_parallel and                            *)
(*               scrape_property_details_async: the result is built, the   *)
(*               enrichment units run under the semaphore, the result is   *)
(*               returned.                                                 *)
(*                                                                         *)
(* The page is the environment: what a snapshot shows, whether the         *)
(* document grew, what a card holds and which step of an enrichment unit   *)
(* fails are chosen nondeterministically inside the bounds below.          *)
(***************************************************************************)
EXTENDS Integers, Sequences, FiniteSets, TLC

(***************************************************************************)
(* Bounds of the model.                                                    *)
(***************************************************************************)
\* identifiers the page's anchors can carry are 1..MaxUid
MaxUid == 2
\* how many times the document of a tall page may grow during one run
MaxGrow == 1
\* anchors in one snapshot of the page
MaxLinks == 2
\* the largest total a "<seen> of <total>" phrase carries
MaxTotal == 1
\* the largest concurrency limit
MaxL == 2
\* the largest number of records handed to the enrichment phase
MaxUnits == 2

(***************************************************************************)
(* Constants of the program.                                               *)
(***************************************************************************)
\* target_count = None (line 332)
NoTarget == -1
\* len(all_properties) < (target_count or 100) (line 439)
DefaultCap == 100
\* num_positions = max(5, (target_count or 68) // 24 + 2) (line 358)
DefaultPositionsTarget == 68
PositionsDivisor == 24
MinPositions == 5
\* scroll_increment = 150 (line 436)
scroll_increment == 150
\* no_new_count < 150 (line 439)
StallBound == 150
\* for check_iteration in range(3) (line 444)
ChecksPerPosition == 3
\* if no_new_count == 15 (line 493), scroll_pos + 2000 (line 495)
JumpStall == 15
JumpAhead == 2000
\* elif no_new_count == 30 (line 499)
BottomStall == 30
\* viewport={'width': 1920, 'height': 1080} (line 303)
ViewportHeight == 1080
\* by how much the document grows when it grows: one scroll step
GrowStep == scroll_increment

None == "None"

Min(a, b) == IF a < b THEN a ELSE b
Max(a, b) == IF a > b THEN a ELSE b

\* sequences over S of length at most n
BSeq(S, n) == UNION {[1..k -> S] : k \in 0..n}

VARIABLES
    pc,               \* position of scrape_rentals / main
    count_phrase,     \* page: << >> or <<seen, total>>, the first "<n> of <m>" of the text
    js_properties,    \* page: the uids found in the inline scripts, distinct, in order
    page_uids,        \* page: the uids its anchors carry
    page_cards,       \* page: the cards its anchors sit in
    init_height,      \* page: document height when the page was loaded
    doc_height,       \* page: live document height
    grow_left,        \* page: how many more times the document may grow
    target_count,
    scroll_positions,
    all_properties,   \* ordered dict: sequence of records, one per key
    max_scroll,
    scroll_pos,
    no_new_count,
    found_new,
    found_any,        \* history: a snapshot at the position being visited recorded a new identifier
    check_iteration,
    pos_idx,          \* index into scroll_positions during card harvesting
    rentals,
    stall_checks,     \* history: positions that ended with found_new false, up to StallBound + 1
    jumped,           \* history: the ascent has jumped forward
    max_concurrent,
    semaphore,        \* free slots of asyncio.Semaphore(max_concurrent)
    upc,              \* position of each enrichment unit
    fault,            \* environment: the step of each unit that fails, if any
    ctx_open,         \* per unit: its browser context exists and is not closed
    navs,             \* history: page.goto calls of each unit
    html,             \* per unit: the document page.content() returned, << >> before
    result,           \* the dict scrape_rentals returns, << >> until it is built
    stdout,           \* the JSON documents main has printed to stdout
    exit_code         \* the code sys.exit was called with: << >> while the process runs

dvars == <<count_phrase, js_properties, page_uids, page_cards, init_height, doc_height,
           grow_left, target_count, scroll_positions, all_properties, max_scroll, scroll_pos,
           no_new_count, found_new, found_any, check_iteration, pos_idx, stall_checks,
           jumped>>
evars == <<max_concurrent, semaphore, upc, fault, ctx_open, navs, html, result>>
mvars == <<stdout, exit_code>>
vars == <<pc, rentals, dvars, evars, mvars>>

(***************************************************************************)
(* Python truthiness of the values the code tests.                         *)
(***************************************************************************)
\* target_count or d
TargetOr(t, d) == IF t = NoTarget \/ t = 0 THEN d ELSE t
\* if target_count and ...
TargetTruthy(t) == t # NoTarget /\ t # 0
\* not prop.get(k): the key is missing, None or the empty string
Falsy(v) == v = None \/ v = ""

(***************************************************************************)
(* The record map all_properties: a dict in insertion order.               *)
(***************************************************************************)
Keys(props) == {props[i].uid : i \in 1..Len(props)}
HasKey(props, uid) == \E i \in 1..Len(props) : props[i].uid = uid
IndexOf(props, uid) == CHOOSE i \in 1..Len(props) : props[i].uid = uid

(***************************************************************************)
(* URLs.  A text is a sequence of pieces whose concatenation is the text.  *)
(* Where the code looks at characters the pieces are single characters:    *)
(* a "/" that starts or ends a text or a path is a piece of its own, and   *)
(* so is every letter of a leading "http"; no other piece begins with "h"  *)
(* or "/", and none ends with "/".                                         *)
(***************************************************************************)
\* url = "https://www.emeraldpm.com/home_rentals" (line 724)
url == <<"h", "t", "t", "p", "s", ":", "/", "/", "www.emeraldpm.com", "/", "home_rentals">>

\* the indexes of the "/" pieces of a text
Slashes(text) == {i \in 1..Len(text) : text[i] = "/"}

\* '/'.join(text.split('/')[:3]): the text before its third "/", all of it when it
\* has fewer than three
JoinFirstThree(text) ==
    LET third == {i \in Slashes(text) : Cardinality({j \in Slashes(text) : j < i}) = 2}
    IN IF third = {} THEN text ELSE SubSeq(text, 1, (CHOOSE i \in third : TRUE) - 1)

\* base_domain (line 407) and base_url (line 696)
base_url == JoinFirstThree(url)

\* f"{base_domain}/listings/rental_applications/new?listable_uid={uid}&source=Website"
TemplateLink(uid) ==
    base_url \o <<"/", "listings/rental_applications/new?listable_uid=", ToString(uid),
                  "&source=Website">>
\* the href of an anchor of the listing page whose listable_uid is uid
Href(uid) == <<"/", "listings/detail?listable_uid=", ToString(uid)>>

NewRecord(uid, link) ==
    [uid |-> uid, property_link |-> link,
     address |-> None, price |-> None, beds |-> None, baths |-> None]

\* all_properties[uid] = {...} on a dict: a new key is appended, an existing key keeps
\* its place and gets the new value
DictSet(props, uid, rec) ==
    IF HasKey(props, uid)
    THEN [props EXCEPT ![IndexOf(props, uid)] = rec]
    ELSE Append(props, rec)

\* an anchor that may add a record, overwriting what is there
AddRecordUnguarded(props, uid, link) == DictSet(props, uid, NewRecord(uid, link))

\* if uid not in all_properties: all_properties[uid] = {'uid': uid, 'property_link': ...}
AddRecord(props, uid, link) ==
    IF HasKey(props, uid) THEN props ELSE DictSet(props, uid, NewRecord(uid, link))

\* lines 401-409: for prop in js_properties: if prop['uid'] not in all_properties: ...
\* every uid that is not yet a key is appended at its first occurrence, in order
SeedFromScripts(props, uids) ==
    LET fresh == SelectSeq([i \in 1..Len(uids) |-> i],
                           LAMBDA i : /\ ~HasKey(props, uids[i])
                                      /\ \A j \in 1..(i - 1) : uids[j] # uids[i])
    IN props \o [k \in 1..Len(fresh) |->
                    NewRecord(uids[fresh[k]], TemplateLink(uids[fresh[k]]))]

\* the anchors of one snapshot, in document order
RECURSIVE ProcessLinks(_, _)
ProcessLinks(props, links) ==
    IF links = << >> THEN props
    ELSE ProcessLinks(AddRecord(props, Head(links), Href(Head(links))), Tail(links))

\* count_match.group(2) of r'(\d+)\s+of\s+(\d+)', or None
InferTarget(phrase) == IF phrase = << >> THEN NoTarget ELSE phrase[2]

NumPositions(t) ==
    Max(MinPositions, (TargetOr(t, DefaultPositionsTarget) \div PositionsDivisor) + 2)

ScrollPositions(t, height) ==
    [i \in 1..NumPositions(t) |-> ((i - 1) * height) \div (NumPositions(t) - 1)]

\* while scroll_pos > 0 and len(all_properties) < (target_count or 100) and no_new_count < 150
LoopCond(pos, props, t, stalls) ==
    pos > 0 /\ Len(props) < TargetOr(t, DefaultCap) /\ stalls < StallBound

\* a jump that overshoots what the 15 stalled steps climbed
JumpTargetTooFar(pos, maxs) == Min(pos + JumpStall * scroll_increment, maxs)

\* scroll_pos = min(scroll_pos + 2000, max_scroll)
JumpTarget(pos, maxs) == Min(pos + JumpAhead, maxs)

\* window.pageYOffset after window.scrollTo(0, document.body.scrollHeight)
LiveOffset(height) == Max(0, height - ViewportHeight)

\* the heights a measurement of the document can return
Measured == {doc_height} \cup (IF grow_left > 0 THEN {doc_height + GrowStep} ELSE {})

\* the same on a page whose list may also drop rows it no longer shows: the document
\* can get shorter, down to one step below the height it was loaded with
Resized ==
    Measured \cup (IF doc_height >= init_height THEN {doc_height - GrowStep} ELSE {})

\* a maximum that follows the last measurement
UpdatedMaxLatest(current_max, maxs) == current_max

\* lines 487-488: max_scroll after the measurement current_max
UpdatedMax(current_max, maxs) == IF current_max > maxs THEN current_max ELSE maxs

(***************************************************************************)
(* Card harvesting (lines 514-612).  A card is what the selectors and the  *)
(* regular expressions find in the element resolved for one anchor.        *)
(***************************************************************************)
\* heading: text of the first h2/h3/h4/address/location element, None when there is none
\* addr_regex: match of the street-address pattern in the card's text, or None
\* price_elem: match of the price pattern in the first price element, or None
\* price_text: match of the price pattern in the card's text, or None
\* beds, baths: match of the bed / bath pattern in the card's markup, or None
CardFull ==
    [heading |-> "12 Oak St", addr_regex |-> None,
     price_elem |-> "$1,450/month", price_text |-> "$1,450/month",
     beds |-> "2 bed", baths |-> "1 bath"]
CardNoisy ==
    [heading |-> "RENT $900", addr_regex |-> "9 Elm Ave, Salem, OR 97301",
     price_elem |-> None, price_text |-> "$900",
     beds |-> "3 br", baths |-> None]
CardBlank ==
    [heading |-> "", addr_regex |-> None,
     price_elem |-> None, price_text |-> None,
     beds |-> None, baths |-> None]
\* a card with a heading and nothing else
CardAddress ==
    [heading |-> "7 Pine Rd", addr_regex |-> None,
     price_elem |-> None, price_text |-> None,
     beds |-> None, baths |-> None]
\* the cards of a page that shows every listing in one kind of card at a time
ListingCards == {CardFull, CardNoisy, CardBlank}
\* the cards of a page that shows a listing twice, first by its heading alone
RelistedCards == {CardAddress, CardFull}

\* addr_text.startswith('RENT') or '$' in addr_text
IsNoise(text) == text \in {"RENT $900", "$1,450/month"}

\* an address extraction that takes the heading of every card it meets
HarvestAddressLastWins(prop, card) ==
    IF card.heading # None /\ ~IsNoise(card.heading) THEN card.heading
    ELSE IF card.addr_regex # None THEN card.addr_regex ELSE prop.address

\* lines 574-584
HarvestAddress(prop, card) ==
    IF ~Falsy(prop.address) THEN prop.address
    ELSE LET a1 == IF card.heading # None /\ ~IsNoise(card.heading)
                   THEN card.heading ELSE prop.address
         IN IF Falsy(a1) /\ card.addr_regex # None THEN card.addr_regex ELSE a1

\* lines 587-598
HarvestPrice(prop, card) ==
    IF ~Falsy(prop.price) THEN prop.price
    ELSE LET p1 == IF card.price_elem # None THEN card.price_elem ELSE prop.price
         IN IF Falsy(p1) /\ card.price_text # None THEN card.price_text ELSE p1

\* lines 602-610
HarvestBeds(prop, card) ==
    IF Falsy(prop.beds) /\ card.beds # None THEN card.beds ELSE prop.beds
HarvestBaths(prop, card) ==
    IF Falsy(prop.baths) /\ card.baths # None THEN card.baths ELSE prop.baths

\* lines 534-612 for one anchor: link = <<uid, card>>
HarvestLink(props, link) ==
    LET uid == link[1]
        card == link[2]
    IN IF HasKey(props, uid)
          /\ (Falsy(props[IndexOf(props, uid)].address)
              \/ Falsy(props[IndexOf(props, uid)].price))
       THEN LET prop == props[IndexOf(props, uid)]
            IN DictSet(props, uid,
                       [prop EXCEPT !.address = HarvestAddress(prop, card),
                                    !.price = HarvestPrice(prop, card),
                                    !.beds = HarvestBeds(prop, card),
                                    !.baths = HarvestBaths(prop, card)])
       ELSE props

\* properties_needing_details (line 514)
NeedingDetails(props) ==
    {props[i].uid : i \in {j \in 1..Len(props) :
                             Falsy(props[j].address) /\ Falsy(props[j].price)}}

(***************************************************************************)
(* The inclusion filter (lines 617-630).                                   *)
(***************************************************************************)
Rental(prop) ==
    [address |-> prop.address, price |-> prop.price, beds |-> prop.beds,
     baths |-> prop.baths, property_link |-> prop.property_link]

\* a filter that wants an address or a price
IncludedAddressOrPrice(rental) == ~Falsy(rental.address) \/ ~Falsy(rental.price)

Included(rental) ==
    rental.property_link # None \/ ~Falsy(rental.address) \/ ~Falsy(rental.price)

\* for uid, prop_data in all_properties.items(): ... rentals.append(rental)
Assemble(props) == SelectSeq([i \in 1..Len(props) |-> Rental(props[i])], Included)

(***************************************************************************)
(* The pages of the model.                                                 *)
(***************************************************************************)
Uids == 1..MaxUid
Phrases == {<< >>} \cup {<<t, t>> : t \in 0..MaxTotal}

Page(phrase, js, uids, cards, height, grow) ==
    [phrase |-> phrase, js |-> js, uids |-> uids, cards |-> cards,
     height |-> height, grow |-> grow]

\* short pages: every phrase, seeded or not, with or without anchors, growing once
\* or not at all
SmallPages ==
    {Page(ph, js, u, ListingCards, 300, g) :
        ph \in Phrases, js \in {<< >>, <<1>>}, u \in {{}, Uids}, g \in {0, 1}}
\* pages tall enough for the forward jump, with one listing
JumpPages == {Page(<< >>, << >>, {1}, ListingCards, 2400, g) : g \in 0..MaxGrow}
\* a page taller than StallBound scroll steps that shows no anchor and never grows
TallStallPage == Page(<< >>, << >>, {}, {}, 24000, 0)
\* a page whose inline scripts name DefaultCap listings
SeededPage == Page(<< >>, [i \in 1..DefaultCap |-> i], Uids, ListingCards, 300, 0)
\* a page whose one listing is named in a script and shown in two different cards
RelistedPage == Page(<< >>, <<1>>, {1}, RelistedCards, 300, 0)
\* a page of DefaultCap + 1 listings without a count phrase: all but two are named in
\* scripts, the rows of the other two are reachable at every position
CrowdedPage ==
    Page(<< >>, [i \in 1..(DefaultCap - 1) |-> 2 + i], {1, 2}, ListingCards, 300, 0)
Pages == SmallPages \cup {SeededPage, RelistedPage}
\* pages that do not change while they are swept
SteadyPages == {page \in SmallPages : page.grow = 0} \cup {CrowdedPage}
TallPages == JumpPages \cup {TallStallPage}

EnrichIdle ==
    /\ max_concurrent = 0
    /\ semaphore = 0
    /\ upc = << >>
    /\ fault = << >>
    /\ ctx_open = << >>
    /\ navs = << >>
    /\ html = << >>
    /\ result = << >>

MainIdle ==
    /\ stdout = << >>
    /\ exit_code = << >>

Start(pages) ==
    /\ pc = "start"
    /\ \E page \in pages :
        /\ count_phrase = page.phrase
        /\ js_properties = page.js
        /\ page_uids = page.uids
        /\ page_cards = page.cards
        /\ init_height = page.height
        /\ doc_height = page.height
        /\ grow_left = page.grow
    /\ target_count = NoTarget
    /\ scroll_positions = << >>
    /\ all_properties = << >>
    /\ max_scroll = 0
    /\ scroll_pos = 0
    /\ no_new_count = 0
    /\ found_new = FALSE
    /\ found_any = FALSE
    /\ check_iteration = 0
    /\ pos_idx = 0
    /\ rentals = << >>
    /\ stall_checks = 0
    /\ jumped = FALSE
    /\ EnrichIdle
    /\ MainIdle

Init == Start(Pages)
AscentInit == Start(TallPages)
SteadyInit == Start(SteadyPages)

(***************************************************************************)
(* scrape_rentals, discovery.                                              *)
(***************************************************************************)
\* lines 327-410: target inference, harvest positions, seeding from inline scripts
Seed ==
    /\ pc = "start"
    /\ pc' = "descent"
    /\ target_count' = InferTarget(count_phrase)
    /\ max_scroll' = doc_height
    /\ scroll_positions' = ScrollPositions(InferTarget(count_phrase), doc_height)
    /\ all_properties' = SeedFromScripts(all_properties, js_properties)
    /\ UNCHANGED <<count_phrase, js_properties, page_uids, page_cards, init_height, doc_height,
                   grow_left, scroll_pos, no_new_count, found_new, found_any, check_iteration,
                   pos_idx, rentals, stall_checks, jumped, evars, mvars>>

\* lines 419-437: scroll to the bottom ten times, measure, start the ascent there
Descent ==
    /\ pc = "descent"
    /\ pc' = "loop"
    /\ \E h \in Measured :
        /\ doc_height' = h
        /\ grow_left' = IF h > doc_height THEN grow_left - 1 ELSE grow_left
        /\ max_scroll' = h
        /\ scroll_pos' = h
    /\ no_new_count' = 0
    /\ UNCHANGED <<count_phrase, js_properties, page_uids, page_cards, init_height, target_count,
                   scroll_positions, all_properties, found_new, found_any, check_iteration,
                   pos_idx, rentals, stall_checks, jumped, evars, mvars>>

\* lines 439-441: the loop test holds, scroll to scroll_pos
LoopEnter ==
    /\ pc = "loop"
    /\ LoopCond(scroll_pos, all_properties, target_count, no_new_count)
    /\ pc' = "snap"
    /\ check_iteration' = 0
    /\ found_any' = FALSE
    /\ UNCHANGED <<rentals, count_phrase, js_properties, page_uids, page_cards, init_height,
                   doc_height, grow_left, target_count, scroll_positions, all_properties,
                   max_scroll, scroll_pos, no_new_count, found_new, pos_idx,
                   stall_checks, jumped, evars, mvars>>

\* line 439: the loop test fails
LoopExit ==
    /\ pc = "loop"
    /\ ~LoopCond(scroll_pos, all_properties, target_count, no_new_count)
    /\ pc' = "ascent_done"
    /\ found_any' = FALSE
    /\ UNCHANGED <<rentals, count_phrase, js_properties, page_uids, page_cards, init_height,
                   doc_height, grow_left, target_count, scroll_positions, all_properties,
                   max_scroll, scroll_pos, no_new_count, found_new, check_iteration,
                   pos_idx, stall_checks, jumped, evars, mvars>>

\* lines 449-470: the anchors of one snapshot are processed
Snap(links) ==
    LET props == ProcessLinks(all_properties, links)
        found == Len(props) > Len(all_properties)
    IN /\ all_properties' = props
       /\ found_new' = found
       /\ found_any' = (found_any \/ found)
       /\ no_new_count' = IF found THEN 0 ELSE no_new_count
       /\ check_iteration' = check_iteration + 1
       /\ pc' = IF (found /\ Len(props) >= TargetOr(target_count, DefaultCap))
                   \/ check_iteration + 1 = ChecksPerPosition
                THEN "tail" ELSE "snap"

\* lines 444-470: one snapshot at the current position
Snapshot ==
    /\ pc = "snap"
    /\ \E links \in BSeq(page_uids, MaxLinks) : Snap(links)
    /\ UNCHANGED <<rentals, count_phrase, js_properties, page_uids, page_cards, init_height,
                   doc_height, grow_left, target_count, scroll_positions, max_scroll,
                   scroll_pos, pos_idx, stall_checks, jumped, evars, mvars>>

\* lines 444-470 on a page whose rows are all painted by the third snapshot: an anchor
\* may first show in any of the three snapshots of a position, and the last one
\* shows every anchor that has not been recorded yet
SteadySnapshot ==
    /\ pc = "snap"
    /\ \E links \in BSeq(page_uids, MaxLinks) :
        /\ check_iteration + 1 = ChecksPerPosition =>
              page_uids \ Keys(all_properties) \subseteq {links[k] : k \in DOMAIN links}
        /\ Snap(links)
    /\ UNCHANGED <<rentals, count_phrase, js_properties, page_uids, page_cards, init_height,
                   doc_height, grow_left, target_count, scroll_positions, max_scroll,
                   scroll_pos, pos_idx, stall_checks, jumped, evars, mvars>>

\* lines 472-506: stall counting, the step up, the target test, growth, the jumps;
\* heights are the heights the measurement of line 486 can return
TailOf(heights) ==
    /\ pc = "tail"
    /\ LET n1 == IF found_new THEN no_new_count ELSE no_new_count + 1
           pos1 == Max(0, scroll_pos - scroll_increment)
       IN /\ stall_checks' = IF found_new THEN stall_checks
                             ELSE Min(stall_checks + 1, StallBound + 1)
          /\ IF TargetTruthy(target_count) /\ Len(all_properties) >= target_count
             THEN /\ pc' = "ascent_done"
                  /\ found_any' = FALSE
                  /\ no_new_count' = n1
                  /\ scroll_pos' = pos1
                  /\ UNCHANGED <<doc_height, grow_left, max_scroll, jumped>>
             ELSE \E h \in heights :
                    LET grew == h > max_scroll
                        max1 == UpdatedMax(h, max_scroll)
                        n2 == IF grew THEN 0 ELSE n1
                    IN /\ pc' = "loop"
                       /\ UNCHANGED found_any
                       /\ doc_height' = h
                       /\ grow_left' = IF h > doc_height THEN grow_left - 1 ELSE grow_left
                       /\ IF n2 = JumpStall
                          THEN /\ scroll_pos' = JumpTarget(pos1, max1)
                               /\ max_scroll' = max1
                               /\ no_new_count' = 0
                               /\ jumped' = TRUE
                          ELSE IF n2 = BottomStall
                          THEN /\ scroll_pos' = LiveOffset(h)
                               /\ max_scroll' = h
                               /\ no_new_count' = 0
                               /\ UNCHANGED jumped
                          ELSE /\ scroll_pos' = pos1
                               /\ max_scroll' = max1
                               /\ no_new_count' = n2
                               /\ UNCHANGED jumped
    /\ UNCHANGED <<rentals, count_phrase, js_properties, page_uids, page_cards, init_height,
                   target_count, scroll_positions, all_properties, found_new,
                   check_iteration, pos_idx, evars, mvars>>

\* the tail of a position on a page that keeps its height or grows
AscentTail == TailOf(Measured)

\* the tail of a position on a page that may also have lost a row
ShiftingTail == TailOf(Resized)

\* lines 508-522: is there a record without address and price; if so scroll to
\* the first harvest position
BeginHarvest ==
    /\ pc = "ascent_done"
    /\ IF NeedingDetails(all_properties) # {}
       THEN /\ pc' = "harvest"
            /\ pos_idx' = 1
            /\ scroll_pos' = scroll_positions[1]
       ELSE /\ pc' = "assemble"
            /\ UNCHANGED <<pos_idx, scroll_pos>>
    /\ UNCHANGED <<rentals, count_phrase, js_properties, page_uids, page_cards, init_height,
                   doc_height, grow_left, target_count, scroll_positions, all_properties,
                   max_scroll, no_new_count, found_new, found_any, check_iteration,
                   stall_checks, jumped, evars, mvars>>

\* lines 528-612: the next anchor of the snapshot taken at this harvest position
\* (a snapshot holds any number of anchors)
HarvestAnchor ==
    /\ pc = "harvest"
    /\ \E uid \in page_uids, card \in page_cards :
        all_properties' = HarvestLink(all_properties, <<uid, card>>)
    /\ UNCHANGED <<pc, rentals, count_phrase, js_properties, page_uids, page_cards, init_height,
                   doc_height, grow_left, target_count, scroll_positions, max_scroll,
                   scroll_pos, no_new_count, found_new, found_any, check_iteration, pos_idx,
                   stall_checks, jumped, evars, mvars>>

\* lines 520-522: the snapshot is exhausted, scroll to the next harvest position
HarvestAdvance ==
    /\ pc = "harvest"
    /\ IF pos_idx = Len(scroll_positions)
       THEN /\ pc' = "assemble"
            /\ UNCHANGED <<pos_idx, scroll_pos>>
       ELSE /\ pc' = "harvest"
            /\ pos_idx' = pos_idx + 1
            /\ scroll_pos' = scroll_positions[pos_idx + 1]
    /\ UNCHANGED <<rentals, count_phrase, js_properties, page_uids, page_cards, init_height,
                   doc_height, grow_left, target_count, scroll_positions, all_properties,
                   max_scroll, no_new_count, found_new, found_any, check_iteration,
                   stall_checks, jumped, evars, mvars>>

\* lines 617-632: the rental objects that pass the inclusion filter
AssembleRentals ==
    /\ pc = "assemble"
    /\ pc' = "assembled"
    /\ rentals' = Assemble(all_properties)
    /\ UNCHANGED <<dvars, evars, mvars>>

\* lines 634-685: contact information and metadata are read, the result is built
BuildResult ==
    /\ pc = "assembled"
    /\ pc' = "built"
    /\ result' = [scraped_at |-> "now", url |-> "url", title |-> "title",
                  description |-> "meta", contact_info |-> "contact_info",
                  rental_listings |-> "rentals", listing_count |-> Len(rentals)]
    /\ UNCHANGED <<rentals, dvars, mvars, max_concurrent, semaphore, upc, fault, ctx_open,
                   navs, html>>

\* lines 296-635 and 707-708: a call to the browser raises; the with block closes the
\* browser, the handler raises Exception("Error scraping ..."), the frame of
\* scrape_rentals with its locals is gone
Fail ==
    /\ pc \in {"start", "descent", "loop", "snap", "tail", "ascent_done", "harvest",
               "assembled"}
    /\ pc' = "raised"
    /\ count_phrase' = << >>
    /\ js_properties' = << >>
    /\ page_uids' = {}
    /\ page_cards' = {}
    /\ init_height' = 0
    /\ doc_height' = 0
    /\ grow_left' = 0
    /\ target_count' = NoTarget
    /\ scroll_positions' = << >>
    /\ all_properties' = << >>
    /\ max_scroll' = 0
    /\ scroll_pos' = 0
    /\ no_new_count' = 0
    /\ found_new' = FALSE
    /\ found_any' = FALSE
    /\ check_iteration' = 0
    /\ pos_idx' = 0
    /\ stall_checks' = 0
    /\ jumped' = FALSE
    /\ rentals' = << >>
    /\ UNCHANGED <<evars, mvars>>

\* a result returned as it was built
WithoutNote(res) == res

\* result["note"] = "No structured rental listings found on page. ..." (line 689)
WithNote(res) ==
    [k \in DOMAIN res \cup {"note"} |->
        IF k = "note" THEN "No structured rental listings found on page." ELSE res[k]]

\* lines 688-690: nothing passed the filter, the result is returned with a note
ReturnNote ==
    /\ pc = "built"
    /\ rentals = << >>
    /\ result' = WithNote(result)
    /\ pc' = "returned"
    /\ UNCHANGED <<rentals, dvars, mvars, max_concurrent, semaphore, upc, fault, ctx_open,
                   navs, html>>

(***************************************************************************)
(* main and the script body (lines 710-768).                               *)
(***************************************************************************)
\* an error document without the error and its type
ErrorDocumentBare(e) == [status |-> "error", timestamp |-> "now"]

\* lines 754-759
ErrorDocument(e) ==
    [status |-> "error", timestamp |-> "now", error |-> e, error_type |-> "Exception"]

\* lines 741-746
SuccessDocument(rental_data) ==
    [status |-> "success", timestamp |-> "now", source_url |-> url, data |-> rental_data]

\* lines 734-750: scrape_rentals returned, the success document is printed
MainSuccess ==
    /\ pc = "returned"
    /\ pc' = "main_returned"
    /\ stdout' = Append(stdout, SuccessDocument(result))
    /\ UNCHANGED <<rentals, dvars, evars, exit_code>>

\* lines 752-761: scrape_rentals raised, the error document is printed, the exception
\* is raised again
MainExcept ==
    /\ pc = "raised"
    /\ pc' = "main_raised"
    /\ stdout' = Append(stdout, ErrorDocument("Error scraping url"))
    /\ UNCHANGED <<rentals, dvars, evars, exit_code>>

\* lines 765-766: sys.exit(0)
ExitSuccess ==
    /\ pc = "main_returned"
    /\ pc' = "exited"
    /\ exit_code' = <<0>>
    /\ UNCHANGED <<rentals, dvars, evars, stdout>>

\* lines 767-768: sys.exit(1)
ExitFailure ==
    /\ pc = "main_raised"
    /\ pc' = "exited"
    /\ exit_code' = <<1>>
    /\ UNCHANGED <<rentals, dvars, evars, stdout>>

Next ==
    \/ Seed
    \/ Descent
    \/ LoopEnter
    \/ LoopExit
    \/ Snapshot
    \/ AscentTail
    \/ BeginHarvest
    \/ HarvestAnchor
    \/ HarvestAdvance
    \/ AssembleRentals
    \/ BuildResult
    \/ ReturnNote
    \/ Fail
    \/ MainSuccess
    \/ MainExcept
    \/ ExitSuccess
    \/ ExitFailure

Spec == Init /\ [][Next]_vars

\* the ascent sweep alone, on the tall pages
AscentNext ==
    \/ Seed
    \/ Descent
    \/ LoopEnter
    \/ LoopExit
    \/ Snapshot
    \/ AscentTail

AscentSpec == AscentInit /\ [][AscentNext]_vars

\* the ascent sweep on the pages with a listing, whose height goes up and down
ShiftingNext ==
    \/ Seed
    \/ Descent
    \/ LoopEnter
    \/ LoopExit
    \/ Snapshot
    \/ ShiftingTail

ShiftingSpec == Start(JumpPages) /\ [][ShiftingNext]_vars

\* the sweep is sequential code: whenever a step is possible one is taken
FairAscentSpec == AscentSpec /\ WF_vars(AscentNext)

\* the ascent sweep over an unchanging page under snapshot timing jitter
SteadyNext ==
    \/ Seed
    \/ Descent
    \/ LoopEnter
    \/ LoopExit
    \/ SteadySnapshot
    \/ AscentTail

SteadySpec == SteadyInit /\ [][SteadyNext]_vars

(***************************************************************************)
(* The detail enricher, scrape_property_details_async (lines 37-198).      *)
(***************************************************************************)
DetailKeys ==
    {"description", "features", "amenities", "square_footage", "availability",
     "pet_policy", "deposit", "lease_terms", "utilities", "parking", "laundry", "images"}

\* an element of a detail page: its tag, its class names, the class names of its
\* ancestors and its text, white space being the token " "
Element(tag, classes, inside, text) ==
    [tag |-> tag, classes |-> classes, inside |-> inside, text |-> text]

\* a loaded detail page: its elements in document order and what the selectors and
\* patterns of lines 107-190 find in it
RichDoc ==
    [body |-> <<Element("div", {<<"property-", "description">>}, {},
                        <<" ", "Sunny two bedroom flat", " ">>),
                Element("p", {}, {<<"content">>}, <<"Call the office to apply">>)>>,
     features |-> <<"Dishwasher", "Balcony">>,
     square_footage |-> "950", availability |-> "Available now",
     pet_policy |-> "Cats allowed", deposit |-> "1,450", lease_terms |-> "12 month",
     utilities |-> "included", parking |-> "street", laundry |-> "in unit",
     images |-> <<"/img/property-1.jpg">>]
\* a page on which nothing matches: the values of lines 77-91 stay
BareDoc ==
    [body |-> << >>, features |-> << >>,
     square_footage |-> None, availability |-> None,
     pet_policy |-> None, deposit |-> None, lease_terms |-> None,
     utilities |-> None, parking |-> None, laundry |-> None,
     images |-> << >>]
\* a page whose .description element is empty, the text being in a .details element
BlankDoc ==
    [BareDoc EXCEPT !.body =
        <<Element("div", {<<"description">>}, {}, << >>),
          Element("div", {<<"details">>}, {}, <<"Quiet street, fenced yard">>)>>]
Docs == {RichDoc, BareDoc, BlankDoc}

\* lines 97-100; a class name is written as the sequence of its parts
description_selectors ==
    <<".description", "[class*=\"description\"]", ".property-description",
      ".details", "[class*=\"details\"]", "p.description", ".content p">>

\* the class attribute contains the word
ClassContains(el, word) ==
    \E name \in el.classes : \E k \in 1..Len(name) : name[k] = word

\* the element is one the CSS selector selects
Matches(selector, el) ==
    CASE selector = ".description" -> <<"description">> \in el.classes
      [] selector = "[class*=\"description\"]" -> ClassContains(el, "description")
      [] selector = ".property-description" -> <<"property-", "description">> \in el.classes
      [] selector = ".details" -> <<"details">> \in el.classes
      [] selector = "[class*=\"details\"]" -> ClassContains(el, "details")
      [] selector = "p.description" -> el.tag = "p" /\ <<"description">> \in el.classes
      [] selector = ".content p" -> el.tag = "p" /\ <<"content">> \in el.inside

\* doc(selector).eq(0): the first element in document order the selector selects,
\* as the empty or one-element sequence
Eq0(body, selector) ==
    LET hits == {k \in 1..Len(body) : Matches(selector, body[k])}
    IN IF hits = {} THEN << >>
       ELSE <<body[CHOOSE k \in hits : \A j \in hits : k <= j]>>

\* str.strip(): leading and trailing white space removed
RECURSIVE Strip(_)
Strip(text) ==
    IF text # << >> /\ Head(text) = " " THEN Strip(Tail(text))
    ELSE IF text # << >> /\ text[Len(text)] = " " THEN Strip(SubSeq(text, 1, Len(text) - 1))
    ELSE text

\* lines 101-105 from selector k on: the first selector that selects an element gives
\* the description and ends the loop, whatever the element's text
RECURSIVE DescriptionFrom(_, _)
DescriptionFrom(body, k) ==
    IF k > Len(description_selectors) THEN None
    ELSE LET desc_elem == Eq0(body, description_selectors[k])
         IN IF Len(desc_elem) > 0 THEN Strip(desc_elem[1].text)
            ELSE DescriptionFrom(body, k + 1)

Description(body) == DescriptionFrom(body, 1)

\* text.startswith(prefix)
StartsWith(text, prefix) ==
    Len(text) >= Len(prefix) /\ SubSeq(text, 1, Len(prefix)) = prefix

\* text.rstrip('/')
RECURSIVE RStrip(_)
RStrip(text) ==
    IF text # << >> /\ text[Len(text)] = "/" THEN RStrip(SubSeq(text, 1, Len(text) - 1))
    ELSE text

\* text.lstrip('/')
RECURSIVE LStrip(_)
LStrip(text) == IF text # << >> /\ Head(text) = "/" THEN LStrip(Tail(text)) ELSE text

\* lines 59-62: the URL the page is sent to
Resolve(property_url, base) ==
    IF StartsWith(property_url, <<"/">>)
    THEN RStrip(base) \o property_url
    ELSE IF ~StartsWith(property_url, <<"h", "t", "t", "p">>)
    THEN RStrip(base) \o <<"/">> \o LStrip(property_url)
    ELSE property_url

\* line 240: scrape_property_details_async(page, rental['property_link'], base_url)
ResolvedUrl(link) == Resolve(link, base_url)

\* a detail bundle that carries an error key as well
DetailBundleWithError(property_url, doc) ==
    [property_url |-> property_url, error |-> None, description |-> Description(doc.body),
     features |-> doc.features, amenities |-> << >>,
     square_footage |-> doc.square_footage, availability |-> doc.availability,
     pet_policy |-> doc.pet_policy, deposit |-> doc.deposit,
     lease_terms |-> doc.lease_terms, utilities |-> doc.utilities,
     parking |-> doc.parking, laundry |-> doc.laundry, images |-> doc.images]

\* lines 77-192: the bundle returned when nothing raises; amenities is never assigned
DetailBundle(property_url, doc) ==
    [property_url |-> property_url, description |-> Description(doc.body),
     features |-> doc.features,
     amenities |-> << >>, square_footage |-> doc.square_footage,
     availability |-> doc.availability, pet_policy |-> doc.pet_policy,
     deposit |-> doc.deposit, lease_terms |-> doc.lease_terms,
     utilities |-> doc.utilities, parking |-> doc.parking, laundry |-> doc.laundry,
     images |-> doc.images]

\* an error bundle that keeps the initialised detail fields
ErrorBundleWithDetails(property_url, e) ==
    [k \in DOMAIN DetailBundle(property_url, BareDoc) \cup {"error"} |->
        IF k = "error" THEN e ELSE DetailBundle(property_url, BareDoc)[k]]

\* lines 194-198: the bundle returned when navigation or extraction raises
ErrorBundle(property_url, e) == [property_url |-> property_url, error |-> e]

(***************************************************************************)
(* The enrichment coordinator, scrape_properties_parallel (lines 200-271). *)
(***************************************************************************)
\* a merge that drops the bundle
UpdateDropped(rental, bundle) == rental

\* a merge that puts the bundle in the place of the rental
UpdateReplacing(rental, bundle) == bundle

\* rental.update(details) (line 241)
Update(rental, bundle) ==
    [k \in DOMAIN rental \cup DOMAIN bundle |->
        IF k \in DOMAIN bundle THEN bundle[k] ELSE rental[k]]

\* a handler that swallows the exception
HandlerSilent(rental, e) == rental

\* rental['details_error'] = str(e) (line 249)
Handler(rental, e) == Update(rental, [details_error |-> e])

\* a semaphore that admits whoever asks
CanAcquireAlways(free) == TRUE

\* asyncio.Semaphore.acquire returns at once only while the counter is positive
CanAcquire(free) == free > 0

\* a slot that is not given back
ReleaseLost(free) == free

\* leaving "async with semaphore" (line 224), on return and on exception alike
Release(free) == free + 1

Faults == {"none", "context", "page", "goto", "extract", "close"}

\* rentals_with_links (line 699), by index into rentals
Units == {i \in 1..Len(rentals) : rentals[i].property_link # None}

\* units past the acquisition of the semaphore and not yet out of it
Active == {i \in Units : upc[i] \in {"entered", "context", "page", "loaded", "closing"}}

\* the record maps the discovery phase hands over: n records, the odd ones seeded
\* from a script and harvested, the even ones found by the sweep and never harvested
AssembledMap(n) ==
    [i \in 1..n |->
        IF i % 2 = 1
        THEN [NewRecord(i, TemplateLink(i)) EXCEPT
                 !.address = "12 Oak St", !.price = "$1,450/month",
                 !.beds = "2 bed", !.baths = "1 bath"]
        ELSE NewRecord(i, Href(i))]
AssembledMaps == {AssembledMap(n) : n \in 0..MaxUnits}

\* the forms the href of an anchor with listable_uid=1 can take, and the link
\* built from the template
Relative == <<"listings/detail?listable_uid=", "1">>
DetailUrls ==
    {TemplateLink(1),
     Href(1),
     Relative,
     <<"?", "listable_uid=", "1">>,
     <<"/", "/", "www.emeraldpm.com", "/">> \o Relative,
     <<"h", "t", "t", "p", ":", "/", "/", "www.emeraldpm.com", "/">> \o Relative,
     <<"H", "T", "T", "P", "S", ":", "/", "/", "www.emeraldpm.com", "/">> \o Relative,
     <<"h", "t", "t", "p", "docs", "/">> \o Relative}

\* the record maps with at most one record, found under any of these links
LinkMaps == {<< >>} \cup {<<NewRecord(1, link)>> : link \in DetailUrls}

EnrichStart(maps) ==
    /\ pc = "assembled"
    /\ count_phrase = << >>
    /\ js_properties = << >>
    /\ page_uids = {}
    /\ page_cards = {}
    /\ init_height = 0
    /\ doc_height = 0
    /\ grow_left = 0
    /\ target_count = NoTarget
    /\ scroll_positions = << >>
    /\ all_properties \in maps
    /\ rentals = Assemble(all_properties)
    /\ max_scroll = 0
    /\ scroll_pos = 0
    /\ no_new_count = 0
    /\ found_new = FALSE
    /\ found_any = FALSE
    /\ check_iteration = 0
    /\ pos_idx = 0
    /\ stall_checks = 0
    /\ jumped = FALSE
    /\ max_concurrent \in 1..MaxL
    /\ semaphore = 0
    /\ upc = [i \in 1..Len(rentals) |-> "idle"]
    /\ fault \in [1..Len(rentals) -> Faults]
    /\ ctx_open = [i \in 1..Len(rentals) |-> FALSE]
    /\ navs = [i \in 1..Len(rentals) |-> 0]
    /\ html = [i \in 1..Len(rentals) |-> << >>]
    /\ result = << >>
    /\ MainIdle

EnrichInit == EnrichStart(AssembledMaps)
ResolveInit == EnrichStart(LinkMaps)

\* every task holds the first rental
TaskRentalShared(i) == 1

\* lines 699 and 262: the task made from the pair (i, rental) of enumerate(rentals)
\* holds rentals[i]; the index of the dict the task with index i reads and updates
TaskRental(i) == i

\* lines 692-703 and 220-263: the semaphore and one task per rental with a link are
\* created
Launch ==
    /\ pc = "built"
    /\ rentals # << >>
    /\ IF Units # {}
       THEN /\ pc' = "gather"
            /\ semaphore' = max_concurrent
            /\ upc' = [i \in 1..Len(rentals) |-> IF i \in Units THEN "queued" ELSE "idle"]
       ELSE /\ pc' = "returned"
            /\ UNCHANGED <<semaphore, upc>>
    /\ UNCHANGED <<rentals, dvars, mvars, max_concurrent, fault, ctx_open, navs, html, result>>

\* line 224: async with semaphore
Acquire(i) ==
    /\ pc = "gather"
    /\ upc[i] = "queued"
    /\ CanAcquire(semaphore)
    /\ semaphore' = semaphore - 1
    /\ upc' = [upc EXCEPT ![i] = "entered"]
    /\ UNCHANGED <<pc, rentals, dvars, mvars, max_concurrent, fault, ctx_open, navs, html, result>>

\* lines 248-252 and the exit of line 224: the handler runs, the slot is released
Raise(i, e) ==
    /\ rentals' = [rentals EXCEPT ![TaskRental(i)] = Handler(rentals[TaskRental(i)], e)]
    /\ semaphore' = Release(semaphore)
    /\ upc' = [upc EXCEPT ![i] = "done"]

\* lines 225-236: await browser.new_context(...)
NewContext(i) ==
    /\ pc = "gather"
    /\ upc[i] = "entered"
    /\ IF fault[i] = "context"
       THEN Raise(i, "new_context failed") /\ UNCHANGED ctx_open
       ELSE /\ ctx_open' = [ctx_open EXCEPT ![i] = TRUE]
            /\ upc' = [upc EXCEPT ![i] = "context"]
            /\ UNCHANGED <<rentals, semaphore>>
    /\ UNCHANGED <<pc, dvars, mvars, max_concurrent, fault, navs, html, result>>

\* line 237: await context.new_page()
NewPage(i) ==
    /\ pc = "gather"
    /\ upc[i] = "context"
    /\ IF fault[i] = "page"
       THEN Raise(i, "new_page failed")
       ELSE upc' = [upc EXCEPT ![i] = "page"] /\ UNCHANGED <<rentals, semaphore>>
    /\ UNCHANGED <<pc, dvars, mvars, max_concurrent, fault, ctx_open, navs, html, result>>

\* lines 240-245 with 56-67 and 194-198: await page.goto(...); when it raises, the
\* error bundle is returned and merged
Goto(i) ==
    /\ pc = "gather"
    /\ upc[i] = "page"
    /\ navs' = [navs EXCEPT ![i] = navs[i] + 1]
    /\ IF fault[i] = "goto"
       THEN /\ rentals' = [rentals EXCEPT ![TaskRental(i)] =
                   Update(rentals[TaskRental(i)],
                          ErrorBundle(ResolvedUrl(rentals[TaskRental(i)].property_link),
                                      "goto failed"))]
            /\ upc' = [upc EXCEPT ![i] = "closing"]
       ELSE /\ upc' = [upc EXCEPT ![i] = "loaded"]
            /\ UNCHANGED rentals
    /\ UNCHANGED <<pc, dvars, mvars, max_concurrent, semaphore, fault, ctx_open, html, result>>

\* lines 68-192, 194-198 and 240-245: the settle wait, page.content(), the
\* extraction; the bundle it returns is merged
Extract(i) ==
    /\ pc = "gather"
    /\ upc[i] = "loaded"
    /\ IF fault[i] = "extract"
       THEN /\ rentals' = [rentals EXCEPT ![TaskRental(i)] =
                    Update(rentals[TaskRental(i)],
                           ErrorBundle(ResolvedUrl(rentals[TaskRental(i)].property_link),
                                       "extraction failed"))]
            /\ UNCHANGED html
       ELSE \E doc \in Docs :
            /\ html' = [html EXCEPT ![i] = doc]
            /\ rentals' = [rentals EXCEPT ![TaskRental(i)] =
                    Update(rentals[TaskRental(i)],
                           DetailBundle(ResolvedUrl(rentals[TaskRental(i)].property_link),
                                        doc))]
    /\ upc' = [upc EXCEPT ![i] = "closing"]
    /\ UNCHANGED <<pc, dvars, mvars, max_concurrent, semaphore, fault, ctx_open, navs, result>>

\* line 247: await context.close(); when it raises the context may or may not be gone
Close(i) ==
    /\ pc = "gather"
    /\ upc[i] = "closing"
    /\ IF fault[i] = "close"
       THEN /\ Raise(i, "close failed")
            /\ \E open \in BOOLEAN : ctx_open' = [ctx_open EXCEPT ![i] = open]
       ELSE /\ ctx_open' = [ctx_open EXCEPT ![i] = FALSE]
            /\ semaphore' = Release(semaphore)
            /\ upc' = [upc EXCEPT ![i] = "done"]
            /\ UNCHANGED rentals
    /\ UNCHANGED <<pc, dvars, mvars, max_concurrent, fault, navs, html, result>>

\* lines 268-271 and 705: gather returns when every task has ended, the browser and
\* with it every context still open is closed, scrape_rentals returns
GatherDone ==
    /\ pc = "gather"
    /\ \A i \in Units : upc[i] = "done"
    /\ ctx_open' = [i \in 1..Len(rentals) |-> FALSE]
    /\ pc' = "returned"
    /\ UNCHANGED <<rentals, dvars, mvars, max_concurrent, semaphore, upc, fault, navs, html,
                   result>>

EnrichNext ==
    \/ BuildResult
    \/ ReturnNote
    \/ Launch
    \/ \E i \in 1..Len(rentals) : Acquire(i)
    \/ \E i \in 1..Len(rentals) : NewContext(i)
    \/ \E i \in 1..Len(rentals) : NewPage(i)
    \/ \E i \in 1..Len(rentals) : Goto(i)
    \/ \E i \in 1..Len(rentals) : Extract(i)
    \/ \E i \in 1..Len(rentals) : Close(i)
    \/ GatherDone
    \/ MainSuccess
    \/ ExitSuccess

EnrichSpec == EnrichInit /\ [][EnrichNext]_vars

\* the event loop runs a task that can run, and every await of a unit ends
FairEnrichSpec == EnrichSpec /\ WF_vars(EnrichNext)

\* the enrichment of one record, under every form of link
ResolveSpec == ResolveInit /\ [][EnrichNext]_vars

(***************************************************************************)
(* Properties.                                                             *)
(***************************************************************************)

\* C1 (EnrichSpec): in every interleaving the number of enrichment units that hold a
\* slot of the semaphore (past the acquisition, not yet released) never exceeds the
\* concurrency limit.
BoundedConcurrency == Cardinality(Active) <= max_concurrent

\* the limit is reached while another unit waits for a slot
LimitReachedWhileQueued ==
    /\ pc = "gather"
    /\ Cardinality(Active) = max_concurrent
    /\ \E i \in Units : upc[i] = "queued"

OnlyGotoFails(k) ==
    /\ k \in Units
    /\ fault[k] = "goto"
    /\ \A j \in Units \ {k} : fault[j] = "none"

\* C2 (EnrichSpec): when navigation fails for record k and nothing else fails, then
\* after the enrichment phase every other record with a link holds every detail field
\* and no error, and record k holds error and none of the detail fields.
FailureIsolation ==
    pc = "returned" =>
        \A k \in 1..Len(rentals) :
            OnlyGotoFails(k) =>
                /\ "error" \in DOMAIN rentals[k]
                /\ DetailKeys \cap DOMAIN rentals[k] = {}
                /\ \A j \in Units \ {k} :
                    /\ DetailKeys \subseteq DOMAIN rentals[j]
                    /\ "error" \notin DOMAIN rentals[j]

\* a finished run of two units in which navigation failed for exactly one
OneNavigationFailed ==
    /\ pc = "returned"
    /\ Cardinality(Units) >= 2
    /\ \E k \in Units : OnlyGotoFails(k)

ContextClosedBeforeRelease ==
    \A i \in Units : upc[i] = "done" => ~ctx_open[i]

\* C5 (FairEnrichSpec): every record with a link eventually has its unit admitted and
\* finished, whatever fails, and scrape_rentals returns, and returns only when every
\* unit has finished.
EnrichmentCompletes ==
    /\ <>(pc = "returned" /\ \A i \in Units : upc[i] = "done")
    /\ [](pc = "returned" => \A i \in Units : upc[i] = "done")

\* a run under limit 1 returned after two units, one of which failed
ReturnedAfterQueueAndFailure ==
    /\ pc = "returned"
    /\ max_concurrent = 1
    /\ Cardinality(Units) >= 2
    /\ \A i \in Units : upc[i] = "done" /\ navs[i] <= 1
    /\ \E i \in Units : fault[i] # "none"

\* no target, no anchor, no inline uid, no growth, taller than StallBound steps
StallPage ==
    /\ count_phrase = << >>
    /\ js_properties = << >>
    /\ page_uids = {}
    /\ grow_left = 0
    /\ doc_height = init_height
    /\ init_height > StallBound * scroll_increment

\* C6, as claimed (AscentSpec): on a tall page with no target that never shows a new
\* identifier and never grows, the ascent ends after exactly StallBound stalled
\* positions.
StallExhaustionAfterBound ==
    (pc = "ascent_done" /\ StallPage) => stall_checks = StallBound

\* C7 (FairAscentSpec): the ascent sweep terminates, whatever the snapshots show and
\* however the document grows.
AscentTerminates == <>(pc = "ascent_done")

\* the sweep ended after a forward jump, a new identifier and a growth of the document
EndedAfterJumpFindAndGrowth ==
    /\ pc = "ascent_done"
    /\ jumped
    /\ Len(all_properties) > 0
    /\ doc_height > init_height

\* C8, as claimed (Spec): without a target the ascent ends only at scroll position 0
\* or at the stall bound, however many records are known.
NoCountLimitWithoutTarget ==
    (pc = "ascent_done" /\ target_count = NoTarget) =>
        (scroll_pos = 0 \/ no_new_count >= StallBound)

\* C9, as claimed (Spec): with a target T >= 0 inferred, no scroll position is visited
\* once at least T records are known (pc = "snap" with check_iteration = 0 is the state
\* right after the scroll to a position).
NoPositionVisitedOnceTargetMet ==
    (pc = "snap" /\ check_iteration = 0 /\ target_count # NoTarget) =>
        Len(all_properties) < target_count

NoDuplicateKeys ==
    \A i, j \in 1..Len(all_properties) :
        all_properties[i].uid = all_properties[j].uid => i = j

\* a step that does not end scrape_rentals by an exception, with which the map goes
RecordsKept ==
    pc' # "raised" =>
        /\ Len(all_properties') >= Len(all_properties)
        /\ \A i \in 1..Len(all_properties) :
            /\ all_properties'[i].uid = all_properties[i].uid
            /\ all_properties'[i].property_link = all_properties[i].property_link
        /\ pc \in {"ascent_done", "harvest", "assemble"} =>
            Len(all_properties') = Len(all_properties)

\* C10 (Spec): the record map holds one record per identifier; as long as the map
\* exists no step of seeding, of the sweep or of card harvesting removes a key, moves
\* it or replaces its record (the link it was created with stays), and card harvesting
\* adds no key.
RecordMapGrowsOnly == []NoDuplicateKeys /\ [][RecordsKept]_vars

\* a record seeded from a script was met again in an anchor (card harvesting filled
\* its address, which only an anchor with its uid does) and still has the link it was
\* seeded with, next to a record the sweep found
SeededSeenAgainAndHarvested ==
    /\ pc = "assembled"
    /\ js_properties # << >>
    /\ \E i, j \in 1..Len(all_properties) :
        /\ all_properties[i].uid = js_properties[1]
        /\ all_properties[i].property_link = TemplateLink(all_properties[i].uid)
        /\ ~Falsy(all_properties[i].address)
        /\ all_properties[j].property_link = Href(all_properties[j].uid)

HarvestFields == {"address", "price", "beds", "baths"}

PopulatedFieldsKept ==
    (pc = "harvest" /\ pc' # "raised") =>
        \A i \in 1..Len(all_properties) : \A f \in HarvestFields :
            ~Falsy(all_properties[i][f]) =>
                all_properties'[i][f] = all_properties[i][f]

\* C11 (Spec): during card harvesting, once the address, price, beds or baths of a
\* record holds a non-empty value, no later harvest step at any position changes that
\* field, also when the same identifier is met again in a card with other text.
FirstWriterWins == [][PopulatedFieldsKept]_vars

\* a record got its address from a card with a heading only and, met again in the
\* full card (heading "12 Oak St"), its price, beds and baths: the address of the
\* first card stayed
AddressKeptWhenFullCardMet ==
    /\ pc = "assembled"
    /\ \E i \in 1..Len(all_properties) :
        /\ all_properties[i].address = CardAddress.heading
        /\ all_properties[i].price = CardFull.price_elem
        /\ all_properties[i].baths = CardFull.baths

HasLinkAddressOrPrice(prop) ==
    prop.property_link # None \/ ~Falsy(prop.address) \/ ~Falsy(prop.price)

\* the positions of the record map whose record has a link, an address or a price
Passing == {i \in 1..Len(all_properties) : HasLinkAddressOrPrice(all_properties[i])}

\* C12 (Spec): the listing holds exactly the records of the map that have a detail
\* link, a populated address or a populated price, each once, with its five fields, in
\* the order of the map (the order of first discovery), and listing_count is the length
\* of the listing.
ListingIsFilteredMapInOrder ==
    pc = "built" =>
        /\ Len(rentals) = Cardinality(Passing)
        /\ \A i \in Passing :
            LET k == Cardinality({j \in Passing : j <= i})
            IN /\ rentals[k].property_link = all_properties[i].property_link
               /\ rentals[k].address = all_properties[i].address
               /\ rentals[k].price = all_properties[i].price
               /\ rentals[k].beds = all_properties[i].beds
               /\ rentals[k].baths = all_properties[i].baths
        /\ result.listing_count = Len(rentals)

\* the result was built from a record seeded from a script and later harvested,
\* followed by a record the sweep found that has nothing but its link
LinkOnlyRecordListedSecond ==
    /\ pc = "built"
    /\ Len(rentals) = 2
    /\ rentals[1].property_link = TemplateLink(1) /\ ~Falsy(rentals[1].address)
    /\ rentals[2].property_link = Href(2)
    /\ rentals[2].address = None /\ rentals[2].price = None
    /\ result.listing_count = 2

\* a text with a scheme: a ":" before any "/" or "?"
IsAbsolute(text) ==
    \E k \in 2..Len(text) :
        text[k] = ":" /\ \A j \in 1..(k - 1) : text[j] \notin {"/", "?", ":"}

\* C13, as claimed (ResolveSpec): the URL a unit navigates to, kept as property_url, is
\* the link itself when the link is absolute, the base followed by the link when the
\* link starts with "/", and otherwise the base, one "/" and the link.
UrlResolvedAsSpecified ==
    \A i \in 1..Len(rentals) :
        "property_url" \in DOMAIN rentals[i] =>
            rentals[i].property_url =
                IF IsAbsolute(rentals[i].property_link) THEN rentals[i].property_link
                ELSE IF Head(rentals[i].property_link) = "/"
                THEN base_url \o rentals[i].property_link
                ELSE base_url \o <<"/">> \o rentals[i].property_link

\* the call of scrape_property_details_async of unit i has returned and its bundle
\* is merged
Returned(i) == upc[i] = "closing" \/ (upc[i] = "done" /\ fault[i] \notin {"context", "page"})

IsDetailBundle(rec) == DetailKeys \subseteq DOMAIN rec /\ "error" \notin DOMAIN rec
IsErrorBundle(rec) == "error" \in DOMAIN rec /\ DetailKeys \cap DOMAIN rec = {}

\* C14 (EnrichSpec): whatever the link and whichever of navigation and extraction
\* fails, the call returns a bundle with the URL that is either a detail bundle (every
\* detail field, no error) or an error bundle (error, no detail field), the latter
\* exactly when navigation or extraction failed; nothing is raised to the caller's
\* handler; and no record holds error together with a detail field.
BundleIsDetailOrError ==
    \A i \in 1..Len(rentals) :
        /\ Returned(i) =>
            /\ "property_url" \in DOMAIN rentals[i]
            /\ IsDetailBundle(rentals[i]) # IsErrorBundle(rentals[i])
            /\ IsErrorBundle(rentals[i]) <=> fault[i] \in {"goto", "extract"}
            /\ upc[i] = "closing" => "details_error" \notin DOMAIN rentals[i]
        /\ "error" \in DOMAIN rentals[i] => DetailKeys \cap DOMAIN rentals[i] = {}

\* a finished run in which extraction failed on one loaded page and filled every
\* field on another
ExtractionFailedNextToFullDetails ==
    /\ pc = "returned"
    /\ \E i, j \in Units :
        /\ fault[i] = "extract" /\ navs[i] = 1 /\ IsErrorBundle(rentals[i])
        /\ fault[j] = "none" /\ IsDetailBundle(rentals[j])
        /\ rentals[j].description = <<"Sunny two bedroom flat">>

\* C15 (Spec): a failure of a browser call during discovery leaves scrape_rentals as
\* one exception, without a result; at most one JSON document is ever written to
\* stdout, and a run that has exited wrote exactly one: status "success" with the
\* result as data and exit code 0 when scrape_rentals returned, status "error" with
\* error and error_type and exit code 1 when it raised.
OneDocumentPerRun ==
    /\ Len(stdout) <= 1
    /\ pc = "raised" => result = << >> /\ stdout = << >> /\ exit_code = << >>
    /\ pc = "exited" =>
        /\ Len(stdout) = 1
        /\ IF result # << >>
           THEN /\ stdout[1].status = "success"
                /\ DOMAIN stdout[1] = {"status", "timestamp", "source_url", "data"}
                /\ stdout[1].data = result
                /\ exit_code = <<0>>
           ELSE /\ stdout[1].status = "error"
                /\ DOMAIN stdout[1] = {"status", "timestamp", "error", "error_type"}
                /\ exit_code = <<1>>

\* a run whose discovery failed has exited with code 1 after one error document
FailedRunReported ==
    /\ pc = "exited"
    /\ exit_code = <<1>>
    /\ result = << >>
    /\ Len(stdout) = 1 /\ stdout[1].status = "error"

\* C16 (EnrichSpec): when the listing is empty, the result built for it has
\* listing_count 0 and the contact information and metadata; no semaphore, task or
\* navigation is ever created for it; it is returned with a note, printed in a success
\* document, and the run exits with code 0.
EmptyListingReturnedWithNote ==
    (rentals = << >> /\ result # << >>) =>
        /\ result.listing_count = 0
        /\ {"scraped_at", "url", "title", "description", "contact_info",
            "rental_listings"} \subseteq DOMAIN result
        /\ pc # "gather" /\ semaphore = 0 /\ Units = {} /\ ctx_open = << >>
        /\ pc # "built" => "note" \in DOMAIN result
        /\ pc \in {"main_returned", "exited"} =>
            stdout = <<SuccessDocument(result)>> /\ stdout[1].status = "success"
        /\ pc = "exited" => exit_code = <<0>>

\* the run over an empty listing has exited with code 0 after printing the result
\* with its note
EmptyListingRunExited ==
    /\ pc = "exited"
    /\ rentals = << >>
    /\ Len(stdout) = 1 /\ stdout[1].status = "success"
    /\ "note" \in DOMAIN stdout[1].data
    /\ stdout[1].data.listing_count = 0
    /\ exit_code = <<0>>

\* the identifiers of the sweep in which the first snapshot of every position shows
\* every anchor reachable there: those of the scripts and, when a position is visited
\* at all, those of the anchors
FullSnapshotKeys ==
    {js_properties[k] : k \in DOMAIN js_properties}
        \cup (IF init_height > 0
                 /\ Len(js_properties) < TargetOr(InferTarget(count_phrase), DefaultCap)
              THEN page_uids ELSE {})

\* C17, as claimed (SteadySpec): over an unchanging page, whichever snapshot of a
\* position first shows each anchor, the sweep ends with the same identifier set: the
\* set of the sweep whose first snapshots show everything.
IdentifierSetUnderJitter ==
    pc = "ascent_done" => Keys(all_properties) = FullSnapshotKeys

\* C18, as claimed (AscentSpec): on a page that shows no new identifier and does not
\* grow, the step that ends the 30th consecutive stalled position scrolls to the
\* absolute bottom and sets the recorded scroll position to the live scroll offset.
BottomScrollAfterThirtyStalls ==
    (StallPage /\ pc = "loop" /\ stall_checks = BottomStall) =>
        scroll_pos = LiveOffset(doc_height)

\* C19, as claimed (AscentSpec): after a position at which a snapshot recorded a new
\* identifier the stall counter is 0: the position is not counted as a stall.
NoStallCountedAfterFind ==
    (pc = "loop" /\ found_any) => no_new_count = 0

\* the description as claimed: the stripped text of the first selector, from selector
\* k on, that selects an element whose text is not empty
RECURSIVE FirstNonEmptyFrom(_, _)
FirstNonEmptyFrom(body, k) ==
    IF k > Len(description_selectors) THEN None
    ELSE LET desc_elem == Eq0(body, description_selectors[k])
         IN IF Len(desc_elem) > 0 /\ Strip(desc_elem[1].text) # << >>
            THEN Strip(desc_elem[1].text)
            ELSE FirstNonEmptyFrom(body, k + 1)

\* C20, as claimed (EnrichSpec): the description of an extracted detail bundle is the
\* text of the first selector whose element has text; an empty element is passed over.
DescriptionIsFirstNonEmptyText ==
    \A i \in DOMAIN html :
        (html[i] # << >> /\ IsDetailBundle(rentals[i])) =>
            rentals[i].description = FirstNonEmptyFrom(html[i].body, 1)

\* a step that changes a record is a step of the unit of that record and of no other
WrittenByOwnUnit ==
    \A r \in 1..Len(rentals) :
        rentals'[r] # rentals[r] =>
            /\ upc'[r] # upc[r]
            /\ \A j \in 1..Len(rentals) : j # r => upc'[j] = upc[j]

\* a unit that has ended is not run again
EndedUnitsStay ==
    \A i \in 1..Len(rentals) : upc[i] = "done" => upc'[i] = "done"

\* when the run returns every record with a link has been through its unit, which
\* navigated once unless it failed before the navigation
EveryLinkedRecordHandled ==
    (pc = "returned" /\ rentals # << >>) =>
        \A i \in 1..Len(rentals) :
            rentals[i].property_link # None =>
                /\ upc[i] = "done"
                /\ navs[i] = IF fault[i] \in {"context", "page"} THEN 0 ELSE 1
                /\ {"property_url", "details_error"} \cap DOMAIN rentals[i] # {}

\* C21 (EnrichSpec): each record with a link is handled by one enrichment unit, once;
\* the unit navigates at most once, whether the navigation succeeds or fails; a record
\* is written only by the steps of its own unit.
OneUnitPerRecord ==
    /\ [][(pc = "gather" /\ pc' = "gather") => (WrittenByOwnUnit /\ EndedUnitsStay)]_vars
    /\ [](\A i \in DOMAIN navs : navs[i] <= 1)
    /\ []EveryLinkedRecordHandled

\* two units have ended, one after a failed and one after a successful navigation, and
\* each record carries the URL of its own link
TwoUnitsWroteTheirOwnRecords ==
    /\ pc = "returned"
    /\ Len(rentals) = 2
    /\ fault = <<"goto", "none">>
    /\ navs = <<1, 1>>
    /\ IsErrorBundle(rentals[1]) /\ IsDetailBundle(rentals[2])
    /\ \A i \in 1..2 : rentals[i].property_url = ResolvedUrl(rentals[i].property_link)

\* the keys of a rental that come from the listing page (lines 620-626)
CardKeys == {"address", "price", "beds", "baths", "property_link"}

\* C22 (EnrichSpec): a step of the enrichment keeps, in every record, the fields
\* address, price, beds, baths and property_link as they were, and changes at most one
\* record; so does every merge, of a detail bundle, of an error bundle or of
\* details_error.
MergeKeepsCardFields ==
    [][pc = "gather" =>
        /\ Len(rentals') = Len(rentals)
        /\ \A r \in 1..Len(rentals) :
            /\ \A k \in CardKeys :
                k \in DOMAIN rentals'[r] /\ rentals'[r][k] = rentals[r][k]
            /\ rentals'[r] # rentals[r] =>
                    \A q \in 1..Len(rentals) : q # r => rentals'[q] = rentals[q]]_vars

\* the first record has been merged with a detail bundle and then with details_error,
\* the second with an error bundle; both still carry what the listing page gave them
BothPathsMergedCardFieldsKept ==
    /\ pc = "returned"
    /\ Len(rentals) = 2
    /\ fault = <<"close", "extract">>
    /\ IsDetailBundle(rentals[1]) /\ "details_error" \in DOMAIN rentals[1]
    /\ IsErrorBundle(rentals[2])
    /\ rentals[1].address = "12 Oak St" /\ rentals[1].price = "$1,450/month"
    /\ rentals[2].address = None
    /\ \A i \in 1..2 : \A k \in CardKeys : rentals[i][k] = Assemble(all_properties)[i][k]

\* the positions of scrape_rentals inside the ascent sweep
InAscent(at) == at \in {"loop", "snap", "tail"}

\* C23 (ShiftingSpec): during the ascent sweep 0 <= scroll_pos <= max_scroll, also
\* right after a forward jump, and max_scroll never gets smaller, whatever the heights
\* measured.
ScrollPositionWithinMaximum ==
    /\ [](InAscent(pc) => (0 <= scroll_pos /\ scroll_pos <= max_scroll))
    /\ [][(InAscent(pc) /\ InAscent(pc')) => max_scroll' >= max_scroll]_vars

\* the sweep has jumped forward on a page that is by now shorter than the recorded
\* maximum, and stands above the live document height
JumpedOnShrunkPage ==
    /\ pc = "loop"
    /\ jumped
    /\ doc_height < max_scroll
    /\ scroll_pos > doc_height
    /\ scroll_pos <= max_scroll
====
